---- MODULE Spec2Model ----
(***************************************************************************)
(* Model of scraper/doctors_scraper.py: the region paginator with its      *)
(* retry loop, the run orchestrator, the record extractor and the CSV      *)
(* writer.                                                                 *)
(*                                                                         *)
(* Python strings are sequences of one-character strings.  A markup string *)
(* is a sequence of nodes: a rendered <tbody> element or the "\n" text     *)
(* that str.join puts between two captures.  Optional values (None) are    *)
(* records with a `none` flag.                                             *)
(***************************************************************************)
EXTENDS Integers, Sequences, FiniteSets, TLC

\* ------------------------------------------------------------------------
\* Bounds of the model
\* ------------------------------------------------------------------------
MaxPages == 2
MaxRows == 2
MaxLen == 4

\* ------------------------------------------------------------------------
\* Program constants
\* ------------------------------------------------------------------------
REGION_BUTTONS == <<"CommandHK", "CommandKLN", "CommandNT">>

max_retries == 3

Langs == {"EN", "TC"}

fieldnames ==
  <<"Name", "ProfileLink", "Description", "Address", "Phone", "Lat", "Lon", "Programs">>

Origin ==
  <<"h","t","t","p","s",":","/","/","a","p","p","s",".","p","c","d","i","r","e","c",
    "t","o","r","y",".","g","o","v",".","h","k">>

ShowMap == <<"S","h","o","w"," ","M","a","p">>

MapHost == <<"m","a","p",".","g","o","v",".","h","k">>

Wgs84 == <<"w","g","s","8","4","/">>

TelScheme == <<"t","e","l",":">>

\* ------------------------------------------------------------------------
\* Python values
\* ------------------------------------------------------------------------
None == [none |-> TRUE, v |-> <<>>]

Some(x) == [none |-> FALSE, v |-> x]

\* truth value of an Optional[str]: None and "" are falsy
Truthy(h) == ~h.none /\ h.v # <<>>

\* ------------------------------------------------------------------------
\* String functions
\* ------------------------------------------------------------------------
IsSpace(c) == c \in {" ", "\t", "\n"}

IsDigitDot(c) == c \in {"0","1","2","3","4","5","6","7","8","9","."}

RECURSIVE LStrip(_)
LStrip(s) ==
  IF s # <<>> /\ IsSpace(Head(s)) THEN LStrip(Tail(s)) ELSE s

RECURSIVE RStrip(_)
RStrip(s) ==
  IF s # <<>> /\ IsSpace(s[Len(s)]) THEN RStrip(SubSeq(s, 1, Len(s) - 1)) ELSE s

\* str.strip()
Strip(s) == RStrip(LStrip(s))

\* length of the longest prefix of s whose characters all satisfy the class
RECURSIVE RunLen(_, _)
RunLen(s, space) ==
  IF s # <<>> /\ (IsSpace(Head(s)) <=> space) THEN 1 + RunLen(Tail(s), space) ELSE 0

\* str.split() with no argument: the maximal runs of non-whitespace
RECURSIVE Split(_)
Split(s) ==
  LET t == LStrip(s)
      k == RunLen(t, FALSE)
  IN IF t = <<>> THEN <<>>
     ELSE <<SubSeq(t, 1, k)>> \o Split(SubSeq(t, k + 1, Len(t)))

\* sep.join(parts)
RECURSIVE Join(_, _)
Join(sep, parts) ==
  IF parts = <<>> THEN <<>>
  ELSE IF Len(parts) = 1 THEN parts[1]
  ELSE parts[1] \o sep \o Join(sep, Tail(parts))

StartsWith(s, p) == Len(s) >= Len(p) /\ SubSeq(s, 1, Len(p)) = p

\* `sub in s`
Contains(s, sub) ==
  \E i \in 1..(Len(s) - Len(sub) + 1) : SubSeq(s, i, i + Len(sub) - 1) = sub

\* Tag.get_text(strip=True): every text node stripped, empty ones skipped,
\* the rest concatenated
RECURSIVE GetTextStrip(_)
GetTextStrip(nodes) ==
  IF nodes = <<>> THEN <<>>
  ELSE Strip(Head(nodes)) \o GetTextStrip(Tail(nodes))

\* variant: address.strip(), the inner runs of whitespace are kept
NormalizeAddressStripOnly(address) == Strip(address)

\* " ".join(address.split())
NormalizeAddress(address) == Join(<<" ">>, Split(address))

\* s[lo-1:hi] of Python: the slice is cut at the ends of the string
Slice(s, lo, hi) ==
  LET a == IF lo < 1 THEN 1 ELSE lo
      b == IF hi > Len(s) THEN Len(s) ELSE hi
  IN IF a > b THEN <<>> ELSE SubSeq(s, a, b)

FirstIndex(S) == CHOOSE i \in S : \A j \in S : i <= j

\* length of the longest prefix of s made of digits and dots: [\d\.]+
RECURSIVE DigitRun(_)
DigitRun(s) ==
  IF s # <<>> /\ IsDigitDot(Head(s)) THEN 1 + DigitRun(Tail(s)) ELSE 0

\* variant: r'wgs84/([\d\.]+)/([\d\.]*)', the second number may be missing
WgsMatchAtLoose(href, i) ==
  /\ Slice(href, i, i + Len(Wgs84) - 1) = Wgs84
  /\ LET g1 == i + Len(Wgs84)
         a  == DigitRun(Slice(href, g1, Len(href)))
     IN /\ a >= 1
        /\ g1 + a <= Len(href)
        /\ href[g1 + a] = "/"

\* does r'wgs84/([\d\.]+)/([\d\.]+)' match href starting at position i
WgsMatchAt(href, i) ==
  /\ Slice(href, i, i + Len(Wgs84) - 1) = Wgs84
  /\ LET g1 == i + Len(Wgs84)
         a  == DigitRun(Slice(href, g1, Len(href)))
     IN /\ a >= 1
        /\ g1 + a <= Len(href)
        /\ href[g1 + a] = "/"
        /\ DigitRun(Slice(href, g1 + a + 1, Len(href))) >= 1

\* re.search(r'wgs84/([\d\.]+)/([\d\.]+)', href): leftmost match, greedy groups
WgsSearch(href) ==
  LET starts == {i \in 1..Len(href) : WgsMatchAt(href, i)}
  IN IF starts = {} THEN [matched |-> FALSE, g1 |-> <<>>, g2 |-> <<>>]
     ELSE LET i  == FirstIndex(starts)
              p1 == i + Len(Wgs84)
              a  == DigitRun(Slice(href, p1, Len(href)))
              p2 == p1 + a + 1
              b  == DigitRun(Slice(href, p2, Len(href)))
          IN [matched |-> TRUE,
              g1 |-> Slice(href, p1, p1 + a - 1),
              g2 |-> Slice(href, p2, p2 + b - 1)]

\* ------------------------------------------------------------------------
\* Record extractor: one <tr>
\*
\* A row is [hasName, name, anchor, links, cells, span, divs, plans]:
\*   hasName, name  the div.PHName and its text nodes
\*   anchor         href of the <a> enclosing the name div (None: no such
\*                  anchor or no href attribute)
\*   links          the row's <a href> elements in document order, each
\*                  [href, text, addr] with addr the text nodes of its first
\*                  div.SPListTableTd (None: no such div)
\*   cells          number of <td>
\*   span           text nodes of the first <span> of the second cell
\*   divs           text nodes of each div.SPListTableTd of the second cell
\*   plans          the div.plan-list: alt of the <img> of each div.plan
\* ------------------------------------------------------------------------

\* row.find('a', href=lambda x: x and x.startswith('tel:'))
PhoneLink(row) ==
  LET S == {i \in 1..Len(row.links) : StartsWith(row.links[i].href, TelScheme)}
  IN IF S = {} THEN None ELSE Some(row.links[FirstIndex(S)])

\* row.find('a', href=lambda x: x and 'map.gov.hk' in x)
MapLink(row) ==
  LET S == {i \in 1..Len(row.links) : Contains(row.links[i].href, MapHost)}
  IN IF S = {} THEN None ELSE Some(row.links[FirstIndex(S)])

RowName(row) == GetTextStrip(row.name)

RowProfileLink(row) ==
  IF ~row.anchor.none /\ row.anchor.v # <<>> THEN Origin \o row.anchor.v ELSE <<>>

RowPhone(row) ==
  IF PhoneLink(row).none THEN <<>> ELSE GetTextStrip(PhoneLink(row).v.text)

RowPractice(row) ==
  IF row.cells > 1 /\ ~row.span.none THEN GetTextStrip(row.span.v) ELSE <<>>

RowLat(row) ==
  IF ~MapLink(row).none /\ WgsSearch(MapLink(row).v.href).matched
  THEN WgsSearch(MapLink(row).v.href).g1 ELSE <<>>

RowLon(row) ==
  IF ~MapLink(row).none /\ WgsSearch(MapLink(row).v.href).matched
  THEN WgsSearch(MapLink(row).v.href).g2 ELSE <<>>

\* address taken from the map link's div.SPListTableTd
MapAddress(row) ==
  IF ~MapLink(row).none /\ ~MapLink(row).v.addr.none
  THEN GetTextStrip(MapLink(row).v.addr.v) ELSE <<>>

\* variant: the first div with text, the map label included
FallbackAddressAny(row) ==
  LET S == {i \in 1..Len(row.divs) : GetTextStrip(row.divs[i]) # <<>>}
  IN IF S = {} THEN <<>> ELSE GetTextStrip(row.divs[FirstIndex(S)])

\* first div.SPListTableTd of the second cell with text, not the map label
FallbackAddress(row) ==
  LET S == {i \in 1..Len(row.divs) :
              /\ GetTextStrip(row.divs[i]) # <<>>
              /\ ~Contains(GetTextStrip(row.divs[i]), ShowMap)}
  IN IF S = {} THEN <<>> ELSE GetTextStrip(row.divs[FirstIndex(S)])

RowAddress(row) ==
  LET address == MapAddress(row)
  IN NormalizeAddress(IF address = <<>> /\ row.cells > 1
                      THEN FallbackAddress(row) ELSE address)

\* alt texts of the program images, missing and empty alt skipped
RECURSIVE PlanAlts(_)
PlanAlts(plans) ==
  IF plans = <<>> THEN <<>>
  ELSE (IF ~Head(plans).none /\ Head(plans).v # <<>> THEN <<Head(plans).v>> ELSE <<>>)
       \o PlanAlts(Tail(plans))

RowPrograms(row) ==
  IF row.plans.none THEN <<>> ELSE Join(<<";", " ">>, PlanAlts(row.plans.v))

RowRecord(row) ==
  [Name |-> RowName(row), ProfileLink |-> RowProfileLink(row),
   Description |-> RowPractice(row), Address |-> RowAddress(row),
   Phone |-> RowPhone(row), Lat |-> RowLat(row), Lon |-> RowLon(row),
   Programs |-> RowPrograms(row)]

\* variant: `if name`
EmitNameOnly(name, address) == name # <<>>

\* `if name and address`
Emit(name, address) == name # <<>> /\ address # <<>>

\* variant: data_list.insert(0, record)
PrependRecord(acc, i, rec) ==
  [data |-> <<rec>> \o acc.data, from |-> <<i>> \o acc.from]

\* data_list.append(record)
AppendRecord(acc, i, rec) ==
  [data |-> Append(acc.data, rec), from |-> Append(acc.from, i)]

\* the loop over the rows; `from` remembers the row each record came from
RECURSIVE ParseRows(_, _, _)
ParseRows(rows, i, acc) ==
  IF i > Len(rows) THEN acc
  ELSE IF ~rows[i].hasName THEN ParseRows(rows, i + 1, acc)
  ELSE IF Emit(RowName(rows[i]), RowAddress(rows[i]))
       THEN ParseRows(rows, i + 1, AppendRecord(acc, i, RowRecord(rows[i])))
       ELSE ParseRows(rows, i + 1, acc)

\* soup.find_all('tr'): the rows of every <tbody> of the markup, in order
RECURSIVE FindAllTr(_)
FindAllTr(markup) ==
  IF markup = <<>> THEN <<>>
  ELSE (IF Head(markup).tag = "tbody" THEN Head(markup).rows ELSE <<>>)
       \o FindAllTr(Tail(markup))

parse_html_to_data(html_content) ==
  ParseRows(FindAllTr(html_content), 1, [data |-> <<>>, from |-> <<>>])

\* ------------------------------------------------------------------------
\* Tabular writer
\* ------------------------------------------------------------------------
NoFile == [exists |-> FALSE, header |-> <<>>, rows |-> <<>>]

\* csv.DictWriter.writerows: one line per record, cells in fieldnames order
RECURSIVE CsvRows(_)
CsvRows(data) ==
  IF data = <<>> THEN <<>>
  ELSE <<<<Head(data).Name, Head(data).ProfileLink, Head(data).Description,
           Head(data).Address, Head(data).Phone, Head(data).Lat, Head(data).Lon,
           Head(data).Programs>>>> \o CsvRows(Tail(data))

\* variant: open(output_filename, 'a'), the lines are added to the old ones
save_to_csv_append(fs, data, output_filename) ==
  IF data = <<>>
  THEN [files |-> fs, msg |-> "No data to save"]
  ELSE [files |-> [fs EXCEPT ![output_filename] =
                     [exists |-> TRUE, header |-> fieldnames,
                      rows |-> fs[output_filename].rows \o CsvRows(data)]],
        msg |-> "Saved"]

\* variant: no early return, the file is opened and the header written even
\* when there is no record
save_to_csv_always(fs, data, output_filename) ==
  [files |-> [fs EXCEPT ![output_filename] =
                [exists |-> TRUE, header |-> fieldnames, rows |-> CsvRows(data)]],
   msg |-> IF data = <<>> THEN "No data to save" ELSE "Saved"]

\* save_to_csv: the files afterwards and the message printed
save_to_csv(fs, data, output_filename) ==
  IF data = <<>>
  THEN [files |-> fs, msg |-> "No data to save"]
  ELSE [files |-> [fs EXCEPT ![output_filename] =
                     [exists |-> TRUE, header |-> fieldnames, rows |-> CsvRows(data)]],
        msg |-> "Saved"]

\* csv_filename of main
CsvFilename(l) == IF l = "EN" THEN "doctors.csv" ELSE "doctors_tc.csv"

FileNames == {"doctors.csv", "doctors_tc.csv"}

\* ------------------------------------------------------------------------
\* The rows the extractor is run on
\* ------------------------------------------------------------------------
TelHref == TelScheme \o <<"1", "2">>

MapHrefCoord == MapHost \o <<"/">> \o Wgs84 \o <<"2", ".", "1", "/", "9", ".", "5">>

MapHrefPlain == MapHost \o <<"/", "x">>

TelLink == [href |-> TelHref, text |-> <<<<" ", "1", "2">>>>, addr |-> None]

RowFull ==
  [hasName |-> TRUE, name |-> <<<<" ", "A", " ">>>>, anchor |-> Some(<<"/", "p">>),
   links |-> <<TelLink,
               [href |-> MapHrefCoord, text |-> <<>>,
                addr |-> Some(<<<<" ", "1", " ", " ", "X", "\n">>>>)]>>,
   cells |-> 2, span |-> Some(<<<<"G", "P">>>>),
   divs |-> <<<<<<" ", "1", " ", " ", "X", "\n">>>>, <<ShowMap>>>>,
   plans |-> Some(<<Some(<<"V">>), None, Some(<<"W">>)>>)]

RowB ==
  [hasName |-> TRUE, name |-> <<<<"B">>>>, anchor |-> None,
   links |-> <<[href |-> MapHrefPlain, text |-> <<>>, addr |-> Some(<<<<"2">>, <<" ", "Y">>>>)]>>,
   cells |-> 3, span |-> None, divs |-> <<>>, plans |-> None]

RowFallback ==
  [hasName |-> TRUE, name |-> <<<<"C">>>>, anchor |-> Some(<<>>),
   links |-> <<TelLink>>, cells |-> 2, span |-> Some(<<<<" ">>>>),
   divs |-> <<<<<<" ">>>>, <<ShowMap>>, <<<<"3", "\t", "\t", "Z", " ">>>>, <<<<"4">>>>>>,
   plans |-> Some(<<>>)]

RowMapEmptyAddr ==
  [hasName |-> TRUE, name |-> <<<<"D">>>>, anchor |-> None,
   links |-> <<[href |-> MapHrefCoord, text |-> <<>>, addr |-> Some(<<<<" ">>>>)]>>,
   cells |-> 2, span |-> None, divs |-> <<<<<<"5">>>>>>, plans |-> None]

RowNoName ==
  [hasName |-> FALSE, name |-> <<>>, anchor |-> None,
   links |-> <<[href |-> MapHrefCoord, text |-> <<>>, addr |-> Some(<<<<"6">>>>)]>>,
   cells |-> 2, span |-> None, divs |-> <<<<<<"6">>>>>>, plans |-> None]

RowBlankName ==
  [hasName |-> TRUE, name |-> <<<<" ", "\n">>>>, anchor |-> None,
   links |-> <<[href |-> MapHrefCoord, text |-> <<>>, addr |-> Some(<<<<"7">>>>)]>>,
   cells |-> 2, span |-> None, divs |-> <<<<<<"7">>>>>>, plans |-> None]

RowOnlyLabel ==
  [hasName |-> TRUE, name |-> <<<<"E">>>>, anchor |-> None, links |-> <<>>,
   cells |-> 2, span |-> None, divs |-> <<<<ShowMap>>, <<<<" ">>>>>>, plans |-> None]

RowOneCell ==
  [hasName |-> TRUE, name |-> <<<<"F">>>>, anchor |-> None, links |-> <<TelLink>>,
   cells |-> 1, span |-> None, divs |-> <<>>, plans |-> None]

RowMapNoAddr ==
  [hasName |-> TRUE, name |-> <<<<"G">>>>, anchor |-> None,
   links |-> <<[href |-> MapHrefCoord, text |-> <<>>, addr |-> None]>>,
   cells |-> 2, span |-> None, divs |-> <<>>, plans |-> None]

\* wgs84/ with one number only
MapHrefHalf == MapHost \o <<"/">> \o Wgs84 \o <<"2", ".", "1", "/">>

\* a first wgs84/ that is followed by no number, then wgs84/3/4.5/7
MapHrefSecond ==
  MapHost \o <<"/">> \o Wgs84 \o <<"x", "/">> \o Wgs84
          \o <<"3", "/", "4", ".", "5", "/", "7">>

\* the map link has an address, the second cell another one
RowMapAndDiv ==
  [hasName |-> TRUE, name |-> <<<<"H">>>>, anchor |-> None,
   links |-> <<[href |-> MapHrefHalf, text |-> <<>>, addr |-> Some(<<<<"8">>>>)]>>,
   cells |-> 2, span |-> None, divs |-> <<<<<<"9">>>>>>, plans |-> None]

\* two map links, the first one without address element
RowTwoMaps ==
  [hasName |-> TRUE, name |-> <<<<"I">>>>, anchor |-> None,
   links |-> <<[href |-> MapHrefSecond, text |-> <<>>, addr |-> None],
               [href |-> MapHrefCoord, text |-> <<>>, addr |-> Some(<<<<"8", " ", "8">>>>)]>>,
   cells |-> 2, span |-> None, divs |-> <<<<ShowMap>>, <<<<"9", " ", " ", "9">>>>>>,
   plans |-> None]

\* rows 1..4, 10 and 11 carry a name and an address, rows 5..9 lack one of them
RowCatalog ==
  <<RowFull, RowB, RowFallback, RowMapEmptyAddr,
    RowNoName, RowBlankName, RowOnlyLabel, RowOneCell, RowMapNoAddr,
    RowMapAndDiv, RowTwoMaps>>

\* ------------------------------------------------------------------------
\* The portal
\* ------------------------------------------------------------------------
Regions == {REGION_BUTTONS[i] : i \in 1..Len(REGION_BUTTONS)}

\* the rows of page p of region r: every page differs from every other one;
\* CommandKLN lists only rows that lack a name or an address
SiteRows(r, p) ==
  IF r = "CommandHK"
  THEN <<RowCatalog[((p - 1) % 4) + 1], RowNoName, RowCatalog[((p - 1) % 4) + 1]>>
  ELSE IF r = "CommandKLN"
  THEN <<RowCatalog[5 + ((p - 1) % 5)]>>
  ELSE <<RowFallback, RowCatalog[((p - 1) % 4) + 1]>>

\* outerHTML of the results body while page p of region r is shown
Capture(r, p) == <<[tag |-> "tbody", rows |-> SiteRows(r, p)]>>

\* the text between two joined captures
NL == [tag |-> "#text", rows |-> <<>>]

\* "\n".join(parts)
JoinNL(parts) == Join(<<NL>>, parts)

\* ------------------------------------------------------------------------
\* State
\* ------------------------------------------------------------------------
VARIABLES
  lang,            \* --lang
  npages,          \* number of result pages the portal has for each region
  files,           \* the output files
  old_files,       \* the output files as they were when the run started
  pc,              \* the statement the run is at
  driver,          \* "none", "open" or "closed"
  exc,             \* the exception propagating, "none" when there is none
  cur_page,        \* page the browser shows, 0 before a region is selected
  ri,              \* position of the loop over REGION_BUTTONS
  all_html_parts,
  html,            \* what scrape_region returned
  attempt,
  all_pages_html,
  page_num,
  html_content,
  data_list,
  out,             \* the run-level messages printed so far
  \* history
  visited,         \* regions scrape_region was called for, in call order
  results,         \* what each of these calls returned
  any_fault,       \* a browser call failed during the current scrape_region
  pag_fault,       \* the call of the pagination step that failed in this
                   \* attempt, "none" when none did
  raised,          \* attempts of the current call ended by an exception
  backoffs,        \* backoff sleeps of the current call
  quit_calls,
  parse_calls,
  save_calls,
  from,            \* row index each record of data_list was built from
  norm,            \* an address followed by its successive normalisations
  setup_calls,     \* calls of setup_driver
  steps,           \* the calls of the current attempt that returned, in order
  earlier_caps     \* an aborted attempt of the current call had captured a page

vars ==
  <<lang, npages, files, old_files, pc, driver, exc, cur_page, ri, all_html_parts, html,
    attempt, all_pages_html, page_num, html_content, data_list, out,
    visited, results, any_fault, pag_fault, raised, backoffs, quit_calls,
    parse_calls, save_calls, from, norm, setup_calls, steps, earlier_caps>>

fixedVars == <<lang, npages, old_files>>

envVars == <<fixedVars, norm, setup_calls, steps, earlier_caps>>

mainVars == <<html_content, data_list, out, files, parse_calls, save_calls, from>>

loopVars == <<ri, all_html_parts, html, visited, results>>

attemptVars == <<attempt, all_pages_html, page_num, cur_page, backoffs, pag_fault>>

OldFile ==
  [exists |-> TRUE, header |-> fieldnames,
   rows |-> <<<<<<"O">>, <<>>, <<>>, <<"0">>, <<>>, <<>>, <<>>, <<>>>>>>]

Locals ==
  /\ driver = "none" /\ exc = "none" /\ cur_page = 0 /\ ri = 1
  /\ all_html_parts = <<>> /\ html = None /\ attempt = 0
  /\ all_pages_html = <<>> /\ page_num = 1
  /\ data_list = <<>> /\ out = {}
  /\ visited = <<>> /\ results = <<>> /\ any_fault = FALSE /\ pag_fault = "none"
  /\ raised = 0 /\ backoffs = 0 /\ quit_calls = 0 /\ parse_calls = 0
  /\ save_calls = 0 /\ from = <<>> /\ norm = <<>>
  /\ setup_calls = 0 /\ steps = <<>> /\ earlier_caps = FALSE

\* main is entered: nothing scraped yet, the output files absent or left by
\* an earlier run
Init ==
  /\ lang \in Langs
  /\ npages \in [Regions -> 1..MaxPages]
  /\ files \in {[f \in FileNames |-> NoFile], [f \in FileNames |-> OldFile]}
  /\ old_files = files
  /\ pc = "setup"
  /\ html_content = <<>>
  /\ Locals

\* ------------------------------------------------------------------------
\* Outcomes of the blocking calls
\* ------------------------------------------------------------------------
\* a call returns, raises an Exception (timeout, missing or stale element,
\* WebDriverException) or is cut short by a KeyboardInterrupt
Outcomes == {"ok", "Exception", "KeyboardInterrupt"}

\* variant: the handler sleeps after every failed attempt, the last included
RetryAlways(a) == TRUE

\* variant: the retry budget is one attempt short
RetryAllowedEarly(a) == a < max_retries - 2

\* `attempt < max_retries - 1`
RetryAllowed(a) == a < max_retries - 1

\* an exception leaves the body of the attempt: `except Exception` takes an
\* Exception, anything else leaves scrape_region and reaches the finally
\* block of scrape_all_regions
Raise(kind) ==
  /\ any_fault' = TRUE
  /\ steps' = steps
  /\ IF kind = "Exception"
     THEN pc' = "except" /\ raised' = raised + 1 /\ exc' = exc
     ELSE pc' = "quit" /\ raised' = raised /\ exc' = kind

Return(to) ==
  pc' = to /\ steps' = Append(steps, pc) /\ UNCHANGED <<any_fault, raised, exc>>

Region == REGION_BUTTONS[ri]

\* ------------------------------------------------------------------------
\* scrape_all_regions, up to the call of scrape_region
\* ------------------------------------------------------------------------
\* variant: setup_driver() called inside the try block, so that its failure
\* reaches the finally block
SetupDriverInsideTry ==
  /\ pc = "setup"
  /\ setup_calls' = setup_calls + 1
  /\ \E o \in Outcomes :
       IF o = "ok"
       THEN /\ driver' = "open" /\ all_html_parts' = <<>> /\ pc' = "for_region"
            /\ exc' = exc
       ELSE /\ exc' = o /\ pc' = "quit"
            /\ UNCHANGED <<driver, all_html_parts>>
  /\ UNCHANGED <<fixedVars, norm, steps, earlier_caps, mainVars, attemptVars, ri, html,
                 visited, results, any_fault, raised, quit_calls>>

\* driver = setup_driver(); all_html_parts = []
SetupDriver ==
  /\ pc = "setup"
  /\ setup_calls' = setup_calls + 1
  /\ \E o \in Outcomes :
       IF o = "ok"
       THEN /\ driver' = "open" /\ all_html_parts' = <<>> /\ pc' = "for_region"
            /\ exc' = exc
       ELSE /\ exc' = o /\ pc' = "crashed"
            /\ UNCHANGED <<driver, all_html_parts>>
  /\ UNCHANGED <<fixedVars, norm, steps, earlier_caps, mainVars, attemptVars, ri, html, visited, results,
                 any_fault, raised, quit_calls>>

\* for region_id in REGION_BUTTONS: html = scrape_region(...)
ForRegion ==
  /\ pc = "for_region"
  /\ IF ri <= Len(REGION_BUTTONS)
     THEN /\ visited' = Append(visited, Region)
          /\ attempt' = 0 /\ any_fault' = FALSE /\ pag_fault' = "none"
          /\ raised' = 0 /\ backoffs' = 0
          /\ steps' = <<>> /\ earlier_caps' = FALSE
          /\ pc' = "for_attempt"
     ELSE /\ pc' = "quit"
          /\ UNCHANGED <<visited, attempt, any_fault, pag_fault, raised, backoffs, steps,
                         earlier_caps>>
  /\ UNCHANGED <<fixedVars, norm, setup_calls, mainVars, driver, exc, cur_page, ri, all_html_parts, html,
                 results, all_pages_html, page_num, quit_calls>>

\* ------------------------------------------------------------------------
\* scrape_region
\* ------------------------------------------------------------------------
\* for attempt in range(max_retries): try:
ForAttempt ==
  /\ pc = "for_attempt"
  /\ IF attempt < max_retries
     THEN /\ pc' = "get" /\ pag_fault' = "none" /\ steps' = <<>>
          /\ UNCHANGED <<html, results>>
     ELSE /\ pc' = "got_region" /\ html' = None /\ results' = Append(results, None)
          /\ UNCHANGED <<pag_fault, steps>>
  /\ UNCHANGED <<fixedVars, norm, setup_calls, earlier_caps, mainVars, driver, exc, cur_page, ri, all_html_parts,
                 visited, attempt, all_pages_html, page_num, backoffs, any_fault,
                 raised, quit_calls>>

\* driver.get(base_url); time.sleep(3)
Get ==
  /\ pc = "get"
  /\ \E o \in Outcomes :
       IF o = "ok" THEN Return("wait_clickable") /\ cur_page' = 0
       ELSE Raise(o) /\ UNCHANGED cur_page
  /\ UNCHANGED <<fixedVars, norm, setup_calls, earlier_caps, mainVars, loopVars, driver, attempt, all_pages_html,
                 page_num, backoffs, pag_fault, quit_calls>>

\* WebDriverWait(driver, 20).until(element_to_be_clickable((By.ID, region_id)))
WaitClickable ==
  /\ pc = "wait_clickable"
  /\ \E o \in Outcomes :
       IF o = "ok" THEN Return("find_region") ELSE Raise(o)
  /\ UNCHANGED <<fixedVars, norm, setup_calls, earlier_caps, mainVars, loopVars, attemptVars, driver, quit_calls>>

\* region_btn = driver.find_element(By.ID, region_id)
FindRegion ==
  /\ pc = "find_region"
  /\ \E o \in Outcomes :
       IF o = "ok" THEN Return("click_region") ELSE Raise(o)
  /\ UNCHANGED <<fixedVars, norm, setup_calls, earlier_caps, mainVars, loopVars, attemptVars, driver, quit_calls>>

\* variant: the wait for the result rows is left out, the capture follows
\* the click at once
ClickRegionNoWait ==
  /\ pc = "click_region"
  /\ \E o \in Outcomes :
       IF o = "ok" THEN Return("capture") ELSE Raise(o)
  /\ UNCHANGED <<fixedVars, norm, setup_calls, earlier_caps, mainVars, loopVars,
                 attemptVars, driver, quit_calls>>

\* driver.execute_script("arguments[0].click();", region_btn)
ClickRegion ==
  /\ pc = "click_region"
  /\ \E o \in Outcomes :
       IF o = "ok" THEN Return("wait_rows") ELSE Raise(o)
  /\ UNCHANGED <<fixedVars, norm, setup_calls, earlier_caps, mainVars, loopVars, attemptVars, driver, quit_calls>>

\* variant: all_pages_html = [] set once before the retry loop, not in each
\* attempt
WaitRowsNoReset ==
  /\ pc = "wait_rows"
  /\ \E o \in Outcomes :
       IF o = "ok"
       THEN /\ Return("capture")
            /\ cur_page' = 1 /\ all_pages_html' = all_pages_html /\ page_num' = 1
       ELSE Raise(o) /\ UNCHANGED <<cur_page, all_pages_html, page_num>>
  /\ UNCHANGED <<fixedVars, norm, setup_calls, earlier_caps, mainVars, loopVars, driver, attempt, backoffs, pag_fault,
                 quit_calls>>

\* WebDriverWait(driver, 30).until(presence of "tbody tr .PHName");
\* time.sleep(2); all_pages_html = []; page_num = 1
WaitRows ==
  /\ pc = "wait_rows"
  /\ \E o \in Outcomes :
       IF o = "ok"
       THEN /\ Return("capture")
            /\ cur_page' = 1 /\ all_pages_html' = <<>> /\ page_num' = 1
       ELSE Raise(o) /\ UNCHANGED <<cur_page, all_pages_html, page_num>>
  /\ UNCHANGED <<fixedVars, norm, setup_calls, earlier_caps, mainVars, loopVars, driver, attempt, backoffs, pag_fault,
                 quit_calls>>

\* variant: `all_pages_html = [html]`, each capture replaces the earlier ones
AppendCaptureOverwrite(pages, capture) == <<capture>>

\* all_pages_html.append(html)
AppendCapture(pages, capture) == Append(pages, capture)

\* results_table = driver.find_element(By.CSS_SELECTOR, "tbody");
\* html = results_table.get_attribute('outerHTML'); all_pages_html.append(html)
CapturePage ==
  /\ pc = "capture"
  /\ \E o \in Outcomes :
       IF o = "ok"
       THEN /\ Return("find_next")
            /\ all_pages_html' = AppendCapture(all_pages_html, Capture(Region, cur_page))
       ELSE Raise(o) /\ UNCHANGED all_pages_html
  /\ UNCHANGED <<fixedVars, norm, setup_calls, earlier_caps, mainVars, loopVars, driver, attempt, page_num, cur_page,
                 backoffs, pag_fault, quit_calls>>

\* the bare `except: break` of the pagination step takes every exception
Break ==
  /\ pc' = "return_join" /\ any_fault' = TRUE /\ pag_fault' = pc
  /\ UNCHANGED <<raised, exc, steps>>

\* next_btn = driver.find_element(By.CSS_SELECTOR, ".pagination .PagedList-skipToNext a")
\* the control exists on every page but the last
FindNext ==
  /\ pc = "find_next"
  /\ \E o \in {"found", "absent", "Exception", "KeyboardInterrupt"} :
       IF o = "found"
       THEN cur_page < npages[Region] /\ Return("click_next") /\ UNCHANGED pag_fault
       ELSE IF o = "absent"
       THEN cur_page >= npages[Region] /\ Return("return_join") /\ UNCHANGED pag_fault
       ELSE Break
  /\ UNCHANGED <<fixedVars, norm, setup_calls, earlier_caps, mainVars, loopVars, driver, attempt, all_pages_html, page_num,
                 cur_page, backoffs, quit_calls>>

\* driver.execute_script("arguments[0].click();", next_btn); page_num += 1;
\* time.sleep(2)
ClickNext ==
  /\ pc = "click_next"
  /\ \E o \in Outcomes :
       IF o = "ok"
       THEN /\ Return("wait_next") /\ cur_page' = cur_page + 1
            /\ page_num' = page_num + 1 /\ UNCHANGED pag_fault
       ELSE Break /\ UNCHANGED <<cur_page, page_num>>
  /\ UNCHANGED <<fixedVars, norm, setup_calls, earlier_caps, mainVars, loopVars, driver, attempt, all_pages_html,
                 backoffs, quit_calls>>

\* WebDriverWait(driver, 15).until(presence of "tbody tr .PHName")
WaitNext ==
  /\ pc = "wait_next"
  /\ \E o \in Outcomes :
       IF o = "ok" THEN Return("capture") /\ UNCHANGED pag_fault ELSE Break
  /\ UNCHANGED <<fixedVars, norm, setup_calls, earlier_caps, mainVars, loopVars, driver, attempt, all_pages_html,
                 page_num, cur_page, backoffs, quit_calls>>

\* return "\n".join(all_pages_html)
ReturnJoin ==
  /\ pc = "return_join"
  /\ html' = Some(JoinNL(all_pages_html))
  /\ results' = Append(results, html')
  /\ pc' = "got_region"
  /\ UNCHANGED <<envVars, mainVars, attemptVars, driver, exc, ri, all_html_parts,
                 visited, any_fault, raised, quit_calls>>

\* variant: the handler always sleeps and retries the same attempt
ExceptRetryForever ==
  /\ pc = "except"
  /\ steps' = <<>>
  /\ earlier_caps' = (earlier_caps \/ \E i \in 1..Len(steps) : steps[i] = "capture")
  /\ backoffs' = backoffs + 1
  /\ \E o \in {"ok", "KeyboardInterrupt"} :
       IF o = "ok"
       THEN pc' = "for_attempt" /\ exc' = exc
       ELSE pc' = "quit" /\ exc' = o
  /\ UNCHANGED <<fixedVars, norm, setup_calls, mainVars, driver, cur_page, ri,
                 all_html_parts, visited, all_pages_html, page_num, pag_fault, any_fault,
                 raised, quit_calls, html, results, attempt>>

\* except Exception as e: retry after time.sleep(5), or return None
Except ==
  /\ pc = "except"
  /\ steps' = <<>>
  /\ earlier_caps' = (earlier_caps \/ \E i \in 1..Len(steps) : steps[i] = "capture")
  /\ IF RetryAllowed(attempt)
     THEN /\ backoffs' = backoffs + 1
          /\ \E o \in {"ok", "KeyboardInterrupt"} :
               IF o = "ok"
               THEN pc' = "for_attempt" /\ attempt' = attempt + 1 /\ exc' = exc
               ELSE pc' = "quit" /\ exc' = o /\ attempt' = attempt
          /\ UNCHANGED <<html, results>>
     ELSE /\ html' = None /\ results' = Append(results, None)
          /\ pc' = "got_region"
          /\ UNCHANGED <<backoffs, attempt, exc>>
  /\ UNCHANGED <<fixedVars, norm, setup_calls, mainVars, driver, cur_page, ri, all_html_parts, visited,
                 all_pages_html, page_num, pag_fault, any_fault, raised, quit_calls>>

\* ------------------------------------------------------------------------
\* scrape_all_regions, after the call of scrape_region
\* ------------------------------------------------------------------------
\* variant: all_html_parts.insert(0, html)
CollectFront(parts, h) == IF Truthy(h) THEN <<h.v>> \o parts ELSE parts

\* if html: all_html_parts.append(html)
Collect(parts, h) == IF Truthy(h) THEN Append(parts, h.v) ELSE parts

GotRegion ==
  /\ pc = "got_region"
  /\ all_html_parts' = Collect(all_html_parts, html)
  /\ ri' = ri + 1
  /\ pc' = "for_region"
  \* the frame of scrape_region is gone
  /\ attempt' = 0 /\ all_pages_html' = <<>> /\ page_num' = 1 /\ steps' = <<>>
  /\ UNCHANGED <<fixedVars, norm, setup_calls, earlier_caps, mainVars, cur_page, backoffs,
                 pag_fault, driver, exc, html, visited, results, any_fault, raised,
                 quit_calls>>

\* variant: driver.quit() after the loop without `finally`, skipped when an
\* exception leaves the loop
QuitNoFinally ==
  /\ pc = "quit"
  /\ IF exc = "none"
     THEN /\ quit_calls' = quit_calls + 1
          /\ \E o \in Outcomes :
               IF o = "ok"
               THEN driver' = "closed" /\ exc' = exc /\ pc' = "return_parts"
               ELSE driver' \in {"open", "closed"} /\ exc' = o /\ pc' = "crashed"
     ELSE pc' = "crashed" /\ UNCHANGED <<quit_calls, driver, exc>>
  /\ UNCHANGED <<envVars, mainVars, loopVars, attemptVars, any_fault, raised>>

\* finally: driver.quit() -- entered when the loop ends and when an exception
\* leaves it; an exception that was propagating goes on to the caller, and so
\* does one raised by quit itself
Quit ==
  /\ pc = "quit"
  /\ quit_calls' = quit_calls + 1
  /\ \E o \in Outcomes :
       IF o = "ok"
       THEN /\ driver' = "closed" /\ exc' = exc
            /\ pc' = IF exc = "none" THEN "return_parts" ELSE "crashed"
       ELSE /\ driver' \in {"open", "closed"} /\ exc' = o /\ pc' = "crashed"
  /\ UNCHANGED <<envVars, mainVars, loopVars, attemptVars, any_fault, raised>>

\* return "\n".join(all_html_parts)
ReturnParts ==
  /\ pc = "return_parts"
  /\ html_content' = JoinNL(all_html_parts)
  /\ pc' = "check_html"
  /\ UNCHANGED <<envVars, data_list, out, files, parse_calls, save_calls, from,
                 loopVars, attemptVars, driver, exc, any_fault, raised, quit_calls>>

\* ------------------------------------------------------------------------
\* main
\* ------------------------------------------------------------------------
\* variant: `html_content is None`, which a joined string never is
NoDataIsNone(content) == FALSE

\* `not html_content`
NoData(content) == content = <<>>

\* if not html_content: print("No data scraped!"); return
CheckHtml ==
  /\ pc = "check_html"
  /\ IF NoData(html_content)
     THEN out' = out \cup {"No data scraped!"} /\ pc' = "done"
     ELSE out' = out /\ pc' = "parse"
  /\ UNCHANGED <<envVars, html_content, data_list, files, parse_calls, save_calls,
                 from, loopVars, attemptVars, driver, exc, any_fault, raised,
                 quit_calls>>

\* data_list = parse_html_to_data(html_content)
Parse ==
  /\ pc = "parse"
  /\ data_list' = parse_html_to_data(html_content).data
  /\ from' = parse_html_to_data(html_content).from
  /\ parse_calls' = parse_calls + 1
  /\ pc' = "save"
  /\ UNCHANGED <<envVars, html_content, out, files, save_calls, loopVars, attemptVars,
                 driver, exc, any_fault, raised, quit_calls>>

\* save_to_csv(data_list, csv_file); print("\nDone!")
Save ==
  /\ pc = "save"
  /\ files' = save_to_csv(files, data_list, CsvFilename(lang)).files
  /\ out' = out \cup {save_to_csv(files, data_list, CsvFilename(lang)).msg, "Done!"}
  /\ save_calls' = save_calls + 1
  /\ pc' = "done"
  /\ UNCHANGED <<envVars, html_content, data_list, parse_calls, from, loopVars,
                 attemptVars, driver, exc, any_fault, raised, quit_calls>>

Next ==
  \/ SetupDriver \/ ForRegion \/ ForAttempt \/ Get \/ WaitClickable \/ FindRegion
  \/ ClickRegion \/ WaitRows \/ CapturePage \/ FindNext \/ ClickNext \/ WaitNext
  \/ ReturnJoin \/ Except \/ GotRegion \/ Quit \/ ReturnParts \/ CheckHtml
  \/ Parse \/ Save

Spec == Init /\ [][Next]_vars

\* ------------------------------------------------------------------------
\* The extractor and the writer on their own
\* ------------------------------------------------------------------------
RECURSIVE SeqsUpTo(_, _)
SeqsUpTo(S, n) ==
  IF n = 0 THEN {<<>>}
  ELSE SeqsUpTo(S, n - 1) \cup
       {Append(q, x) : q \in {t \in SeqsUpTo(S, n - 1) : Len(t) = n - 1}, x \in S}

CatalogRows == {RowCatalog[i] : i \in 1..Len(RowCatalog)}

Tbody(rows) == <<[tag |-> "tbody", rows |-> rows]>>

\* markup of up to MaxRows rows, captured as one page or split over two
ParseInputs ==
  {<<>>} \cup
  {Tbody(rows) : rows \in SeqsUpTo(CatalogRows, MaxRows)} \cup
  UNION {{JoinNL(<<Tbody(SubSeq(rows, 1, k)), Tbody(SubSeq(rows, k + 1, Len(rows)))>>) :
            k \in 0..Len(rows)} : rows \in SeqsUpTo(CatalogRows, MaxRows)}

ParseInit ==
  /\ lang \in Langs
  /\ npages = [r \in Regions |-> 1]
  /\ files \in [FileNames -> {NoFile, OldFile}]
  /\ old_files = files
  /\ pc = "parse"
  /\ html_content \in ParseInputs
  /\ Locals

ParseNext == Parse \/ Save

ParseSpec == ParseInit /\ [][ParseNext]_vars

\* ------------------------------------------------------------------------
\* Address normalisation on its own
\* ------------------------------------------------------------------------
AddrChars == {"a", "b", " ", "\n"}

NormInit ==
  /\ lang = "EN"
  /\ npages = [r \in Regions |-> 1]
  /\ files = [f \in FileNames |-> NoFile]
  /\ old_files = files
  /\ pc = "normalize"
  /\ html_content = <<>>
  /\ driver = "none" /\ exc = "none" /\ cur_page = 0 /\ ri = 1
  /\ all_html_parts = <<>> /\ html = None /\ attempt = 0
  /\ all_pages_html = <<>> /\ page_num = 1
  /\ data_list = <<>> /\ out = {}
  /\ visited = <<>> /\ results = <<>> /\ any_fault = FALSE /\ pag_fault = "none"
  /\ raised = 0 /\ backoffs = 0 /\ quit_calls = 0 /\ parse_calls = 0
  /\ save_calls = 0 /\ from = <<>>
  /\ setup_calls = 0 /\ steps = <<>> /\ earlier_caps = FALSE
  /\ \E s \in SeqsUpTo(AddrChars, MaxLen) : norm = <<s>>

\* address = " ".join(address.split()), applied to its own result once more
Normalize ==
  /\ pc = "normalize"
  /\ Len(norm) < 3
  /\ norm' = Append(norm, NormalizeAddress(norm[Len(norm)]))
  /\ UNCHANGED <<fixedVars, setup_calls, steps, earlier_caps, mainVars, loopVars,
                 attemptVars, pc, driver, exc, any_fault, raised, quit_calls>>

NormNext == Normalize

NormSpec == NormInit /\ [][NormNext]_vars

\* ------------------------------------------------------------------------
\* Properties
\* ------------------------------------------------------------------------
AfterRegions == {"return_parts", "check_html", "parse", "save", "done"}

\* C1: when no browser call failed during a call of scrape_region, the call
\* returns from its first attempt, without retry or backoff, the captures of
\* pages 1..N of the region in page order, each once, separated by newlines.
C1_AllPagesOnFirstAttempt ==
  (pc = "got_region" /\ ~any_fault) =>
    /\ attempt = 0 /\ raised = 0 /\ backoffs = 0
    /\ ~html.none
    /\ Len(html.v) = 2 * npages[Region] - 1
    /\ \A k \in 1..Len(html.v) :
         html.v[k] = IF k % 2 = 1 THEN Capture(Region, (k + 1) \div 2)[1] ELSE NL

C1_Witness ==
  /\ pc = "got_region" /\ ~any_fault /\ npages[Region] >= 2
  /\ Len(html.v) = 2 * npages[Region] - 1

\* C2: when every attempt of a call of scrape_region ended by an exception,
\* exactly max_retries attempts were made, the call returns None, and the
\* orchestrator adds nothing to the collected markup.
C2_ExhaustedRetriesYieldNone ==
  [][(pc = "got_region" /\ raised = attempt + 1) =>
       /\ attempt + 1 = max_retries
       /\ html = None
       /\ all_html_parts' = all_html_parts]_vars

C2_Witness ==
  pc = "for_region" /\ ri = 2 /\ results = <<None>> /\ raised = max_retries
  /\ all_html_parts = <<>>

\* C3: an attempt in which the click on the next-page control failed, or the
\* wait for the rows after it timed out, does not go on to return the pages
\* captured so far.
C3_PaginationFailureAborts ==
  ~(pc = "return_join" /\ pag_fault \in {"click_next", "wait_next"})

\* C4: once the session is provisioned driver.quit is called exactly once,
\* at the exit of scrape_all_regions and before control is back in main,
\* whether the function returns or an exception leaves the region loop.
C4_SessionClosedOnEveryExit ==
  /\ quit_calls <= 1
  /\ quit_calls = 1 => pc \in AfterRegions \cup {"crashed"}
  /\ (pc \in AfterRegions /\ driver # "none") => (quit_calls = 1 /\ driver = "closed")
  /\ (pc = "crashed" /\ driver # "none") => quit_calls = 1

\* an exception left the region loop while scrape_region was running
C4_Witness ==
  /\ pc = "crashed" /\ exc = "KeyboardInterrupt" /\ driver = "closed"
  /\ Len(visited) = 2 /\ Len(results) = 1 /\ quit_calls = 1

\* C5: a run in which every region returned no markup prints the no-data
\* message and ends without calling the extractor or the writer, the output
\* files being as they were.
C5_TotalFailureWritesNothing ==
  (/\ pc = "done"
   /\ Len(results) = Len(REGION_BUTTONS)
   /\ \A i \in 1..Len(results) : ~Truthy(results[i])) =>
    /\ "No data scraped!" \in out
    /\ parse_calls = 0 /\ save_calls = 0
    /\ files = old_files

C5_Witness ==
  /\ pc = "done" /\ results = <<None, None, None>>
  /\ "No data scraped!" \in out

\* every character of every text node is whitespace
BlankText(nodes) ==
  \A n \in 1..Len(nodes) : \A c \in 1..Len(nodes[n]) : IsSpace(nodes[n][c])

\* C6: every record has a non-empty Name and an Address that is non-empty
\* after whitespace normalisation; a row without name element, with an empty
\* name or with an empty address yields no record.
C6_NameAndAddressPresent ==
  (pc \in {"save", "done"} /\ parse_calls = 1) =>
    LET rows == FindAllTr(html_content)
    IN /\ \A j \in 1..Len(data_list) :
            /\ Strip(data_list[j].Name) # <<>>
            /\ NormalizeAddress(data_list[j].Address) # <<>>
       /\ \A i \in 1..Len(rows) :
            (~rows[i].hasName \/ BlankText(rows[i].name) \/ RowAddress(rows[i]) = <<>>)
              => \A j \in 1..Len(from) : from[j] # i

C6_Witness ==
  /\ pc = "save" /\ parse_calls = 1 /\ Len(data_list) = 1
  /\ Len(FindAllTr(html_content)) = 2
  /\ FindAllTr(html_content)[1].hasName /\ RowAddress(FindAllTr(html_content)[1]) = <<>>

\* the newline-joined markup of the calls that returned markup
RECURSIVE Combined(_)
Combined(rs) ==
  IF rs = <<>> THEN <<>>
  ELSE IF ~Truthy(Head(rs)) THEN Combined(Tail(rs))
  ELSE IF Combined(Tail(rs)) = <<>> THEN Head(rs).v
  ELSE Head(rs).v \o <<NL>> \o Combined(Tail(rs))

\* C7: scrape_region is called for the regions in the order of
\* REGION_BUTTONS, each once, a call starting only when the one before has
\* returned; when the loop is over every region was visited and the combined
\* markup is that of the successful regions in the same order.
C7_RegionsInFixedOrder ==
  /\ Len(visited) <= Len(REGION_BUTTONS)
  /\ \A i \in 1..Len(visited) : visited[i] = REGION_BUTTONS[i]
  /\ Len(results) <= Len(visited) /\ Len(visited) <= Len(results) + 1
  /\ (pc \in AfterRegions /\ driver # "none") =>
       /\ visited = REGION_BUTTONS /\ Len(results) = Len(REGION_BUTTONS)
       /\ JoinNL(all_html_parts) = Combined(results)
  /\ (pc \in AfterRegions \ {"return_parts"} /\ driver # "none") =>
       html_content = Combined(results)

C7_Witness ==
  /\ pc = "check_html" /\ visited = REGION_BUTTONS
  /\ results[1] = None /\ Truthy(results[2]) /\ Truthy(results[3])

\* C8: save_to_csv called with no record leaves the output files as they
\* were, prints its message and returns to main.
C8_EmptySaveWritesNothing ==
  (pc = "done" /\ save_calls = 1 /\ data_list = <<>>) =>
    /\ files = old_files
    /\ "No data to save" \in out
    /\ "Done!" \in out /\ exc = "none"

C8_Witness ==
  /\ pc = "done" /\ save_calls = 1 /\ data_list = <<>>
  /\ html_content # <<>> /\ "No data to save" \in out

\* C9: no failure of a browser call leaves main as an uncaught exception.
C9_NothingEscapesMain ==
  ~(pc = "crashed" /\ exc = "Exception")

Qualifies(row) == row.hasName /\ ~BlankText(row.name) /\ RowAddress(row) # <<>>

\* the j-th smallest element of a set of indices
Nth(S, j) == CHOOSE i \in S : Cardinality({k \in S : k <= i}) = j

\* C10: the records are those of the qualifying rows in document order, one
\* per qualifying row, equal rows included.
C10_DocumentOrder ==
  (pc \in {"save", "done"} /\ parse_calls = 1) =>
    LET rows == FindAllTr(html_content)
        Q    == {i \in 1..Len(rows) : Qualifies(rows[i])}
    IN /\ Len(data_list) = Cardinality(Q)
       /\ \A j \in 1..Len(data_list) : data_list[j] = RowRecord(rows[Nth(Q, j)])

C10_Witness ==
  /\ pc = "save" /\ parse_calls = 1 /\ Len(data_list) = 2
  /\ data_list[1].Name # data_list[2].Name

C10_WitnessEqualRows ==
  /\ pc = "save" /\ parse_calls = 1 /\ Len(data_list) = 2
  /\ data_list[1] = data_list[2]

\* no whitespace at either end, none but single spaces inside
Collapsed(s) ==
  /\ s # <<>> => (~IsSpace(s[1]) /\ ~IsSpace(s[Len(s)]))
  /\ \A i \in 1..Len(s) : IsSpace(s[i]) => (s[i] = " " /\ ~IsSpace(s[i + 1]))

\* C11: normalising a normalised address gives the same string, which has
\* no leading, trailing or consecutive whitespace.
C11_NormalizeIdempotent ==
  Len(norm) = 3 => (norm[3] = norm[2] /\ Collapsed(norm[2]))

C11_Witness ==
  /\ Len(norm) = 3 /\ norm[1] # norm[2]
  /\ \E i \in 1..Len(norm[2]) : IsSpace(norm[2][i])

\* C12: when setup_driver fails the run ends there: setup_driver was called
\* once, no region was attempted, driver.quit was not called and the output
\* files are as they were.
C12_ProvisioningFailureIsFatal ==
  /\ setup_calls <= 1
  /\ (setup_calls = 1 /\ driver = "none") =>
       /\ pc = "crashed" /\ exc # "none"
       /\ visited = <<>> /\ steps = <<>>
       /\ quit_calls = 0
       /\ parse_calls = 0 /\ save_calls = 0 /\ files = old_files

C12_Witness ==
  pc = "crashed" /\ driver = "none" /\ exc = "Exception" /\ setup_calls = 1

InScrapeRegion ==
  pc \in {"for_attempt", "get", "wait_clickable", "find_region", "click_region",
          "wait_rows", "capture", "find_next", "click_next", "wait_next",
          "return_join", "except"}

\* steps an attempt can still take from the statement it is at: the calls
\* before the first capture, then four calls for each page left
StepsLeft ==
  LET n == npages[Region]
  IN CASE pc = "for_attempt"    -> 4 * n + 11
       [] pc = "get"            -> 4 * n + 10
       [] pc = "wait_clickable" -> 4 * n + 9
       [] pc = "find_region"    -> 4 * n + 8
       [] pc = "click_region"   -> 4 * n + 7
       [] pc = "wait_rows"      -> 4 * n + 6
       [] pc = "capture"        -> 4 * (n - cur_page) + 5
       [] pc = "find_next"      -> 4 * (n - cur_page) + 4
       [] pc = "click_next"     -> 4 * (n - cur_page) + 3
       [] pc = "wait_next"      -> 4 * (n - cur_page) + 6  \* page already turned
       [] pc = "return_join"    -> 1
       [] OTHER                 -> 0

\* steps the call of scrape_region can still take: the attempts left, each
\* with its handler, and the rest of the current attempt
Rank == (max_retries - attempt) * (4 * npages[Region] + 12) + StepsLeft

\* C13: every step of scrape_region brings the call nearer to its end, by a
\* measure that is never negative: the call returns markup or None to the
\* region loop after at most max_retries attempts, or an interrupt ends it,
\* and the loop goes on with the next region.
C13_ScrapeRegionTerminates ==
  [][/\ InScrapeRegion =>
          /\ Rank >= 0 /\ attempt < max_retries /\ raised <= attempt + 1
          /\ IF InScrapeRegion' THEN Rank' < Rank
             ELSE \/ pc' = "got_region" /\ raised' <= max_retries
                  \/ pc' = "quit" /\ exc' # "none"
     /\ pc = "got_region" => (pc' = "for_region" /\ ri' = ri + 1)]_vars

C13_Witness ==
  /\ pc = "got_region" /\ raised = max_retries - 1 /\ Truthy(html)
  /\ Len(all_pages_html) = MaxPages

\* number of pages captured by the current attempt
Captured == Cardinality({i \in 1..Len(steps) : steps[i] = "capture"})

\* C14: the markup scrape_region returns is made of the captures of the
\* attempt that returned, pages 1..k in order for the k pages it captured;
\* nothing captured by an aborted attempt is in it.
C14_OnlySuccessfulAttemptCaptures ==
  (pc = "got_region" /\ ~html.none) =>
    /\ Captured >= 1
    /\ Len(html.v) = 2 * Captured - 1
    /\ \A k \in 1..Len(html.v) :
         html.v[k] = IF k % 2 = 1 THEN Capture(Region, (k + 1) \div 2)[1] ELSE NL

C14_Witness ==
  /\ pc = "got_region" /\ ~html.none /\ earlier_caps /\ raised = 2
  /\ Captured = 2

\* C15: within a call of scrape_region a backoff is taken exactly after a
\* failed attempt that is not the last, and a new attempt follows it; the
\* last failed attempt is followed by the return of None, a successful one
\* by the return of its markup, neither by a backoff.
C15_BackoffBetweenAttemptsOnly ==
  [][/\ InScrapeRegion => backoffs = (IF pc = "except" THEN raised - 1 ELSE raised)
     /\ (pc = "except" /\ raised < max_retries) =>
          /\ backoffs' = backoffs + 1
          /\ \/ pc' = "for_attempt" /\ attempt' = attempt + 1
             \/ pc' = "quit" /\ exc' = "KeyboardInterrupt"
     /\ (pc = "except" /\ raised >= max_retries) =>
          (backoffs' = backoffs /\ pc' = "got_region" /\ html' = None)
     /\ pc = "return_join" => (backoffs' = backoffs /\ pc' = "got_region")
     /\ (InScrapeRegion /\ pc # "except") => backoffs' = backoffs
     /\ pc = "got_region" => backoffs' = backoffs]_vars

C15_Witness ==
  /\ pc = "got_region" /\ html = None /\ raised = max_retries
  /\ backoffs = max_retries - 1

\* the calls of an attempt that come before its first capture
Prelude == <<"get", "wait_clickable", "find_region", "click_region", "wait_rows">>

\* C16: the calls of an attempt return in the order get, wait for the region
\* control, find it, click it, wait for the rows, and only then a page is
\* captured; an attempt that failed in one of these calls captured nothing.
C16_SelectBeforeCapture ==
  InScrapeRegion =>
    /\ \A i \in 1..Len(steps) :
         /\ i <= Len(Prelude) => steps[i] = Prelude[i]
         /\ steps[i] = "capture" => i > Len(Prelude)
    /\ Len(steps) > Len(Prelude) => steps[Len(Prelude) + 1] = "capture"
    /\ Len(steps) < Len(Prelude) => Captured = 0
    /\ pc \in {"find_next", "click_next", "wait_next", "return_join"} =>
         (Captured >= 1 /\ Len(all_pages_html) = Captured)

\* the second attempt failed while waiting for the rows, after a first one
\* that had captured a page
C16_Witness ==
  /\ pc = "except" /\ raised = 2 /\ earlier_caps
  /\ steps = SubSeq(Prelude, 1, 4) /\ all_pages_html # <<>>

\* the map link of the row has an address element with text
HasMapText(row) ==
  /\ ~MapLink(row).none /\ ~MapLink(row).v.addr.none
  /\ ~BlankText(MapLink(row).v.addr.v)

\* the div has text and is not the map label
Usable(div) == ~BlankText(div) /\ ~Contains(GetTextStrip(div), ShowMap)

\* C17: the Address of a record is the whitespace-normalised text of the
\* address element of the row's map link when that text is not empty, and
\* otherwise that of the first element of the second cell that has text
\* other than the map label; a named row for which neither gives text
\* yields no record.
C17_AddressFallbackOrder ==
  (pc \in {"save", "done"} /\ parse_calls = 1) =>
    LET rows == FindAllTr(html_content)
    IN /\ Len(from) = Len(data_list)
       /\ \A j \in 1..Len(data_list) :
            LET row == rows[from[j]]
            IN IF HasMapText(row)
               THEN data_list[j].Address =
                      NormalizeAddress(GetTextStrip(MapLink(row).v.addr.v))
               ELSE /\ row.cells > 1
                    /\ \E d \in 1..Len(row.divs) :
                         /\ Usable(row.divs[d])
                         /\ \A e \in 1..(d - 1) : ~Usable(row.divs[e])
                         /\ data_list[j].Address =
                              NormalizeAddress(GetTextStrip(row.divs[d]))
       /\ \A i \in 1..Len(rows) :
            (/\ ~HasMapText(rows[i])
             /\ (rows[i].cells <= 1 \/ \A d \in 1..Len(rows[i].divs) : ~Usable(rows[i].divs[d])))
              => \A j \in 1..Len(from) : from[j] # i

\* one record whose address comes from the map link although the second
\* cell has another one, and one whose address comes from the second cell
\* after an empty element and the map label were passed over
C17_Witness ==
  /\ pc = "save" /\ parse_calls = 1
  /\ FindAllTr(html_content) = <<RowMapAndDiv, RowFallback>>
  /\ Len(data_list) = 2
  /\ data_list[1].Address = <<"8">> /\ data_list[2].Address = <<"3", " ", "Z">>

\* C18: the run replaces its output file by the header and one line per
\* record exactly when a region returned markup and the extractor found a
\* record in it; in every other run, and until the writer is reached, the
\* output files are as the run found them.
C18_FileWrittenIffRecords ==
  LET f == CsvFilename(lang)
  IN /\ pc # "done" => files = old_files
     /\ \A g \in FileNames \ {f} : files[g] = old_files[g]
     /\ pc = "done" =>
          IF (\E i \in 1..Len(results) : Truthy(results[i])) /\ data_list # <<>>
          THEN /\ files[f].exists /\ files[f].header = fieldnames
               /\ Len(files[f].rows) = Len(data_list)
               /\ \A j \in 1..Len(data_list) :
                    /\ Len(files[f].rows[j]) = Len(fieldnames)
                    /\ files[f].rows[j][1] = data_list[j].Name
                    /\ files[f].rows[j][4] = data_list[j].Address
               /\ files[f] # old_files[f]
          ELSE files[f] = old_files[f]

C18_Witness ==
  /\ pc = "done" /\ old_files[CsvFilename(lang)] = OldFile
  /\ files[CsvFilename(lang)] # OldFile /\ Len(data_list) >= 2

\* markup was scraped and the extractor found no record in it
C18_WitnessNoRecords ==
  /\ pc = "done" /\ html_content # <<>> /\ parse_calls = 1 /\ data_list = <<>>
  /\ files = old_files /\ old_files[CsvFilename(lang)] = OldFile

\* the characters lo..hi of h are digits or dots, and there is at least one
Number(h, lo, hi) ==
  /\ lo <= hi /\ hi <= Len(h)
  /\ \A k \in lo..hi : IsDigitDot(h[k])

\* wgs84/<number>/<number> occupies h from position i, the numbers being a
\* and b characters long
PatternAt(h, i, a, b) ==
  /\ Slice(h, i, i + Len(Wgs84) - 1) = Wgs84
  /\ Number(h, i + Len(Wgs84), i + Len(Wgs84) + a - 1)
  /\ i + Len(Wgs84) + a <= Len(h) /\ h[i + Len(Wgs84) + a] = "/"
  /\ Number(h, i + Len(Wgs84) + a + 1, i + Len(Wgs84) + a + b)

PatternFrom(h, i) ==
  /\ Slice(h, i, i + Len(Wgs84) - 1) = Wgs84
  /\ \E a \in 1..Len(h) : \E b \in 1..Len(h) : PatternAt(h, i, a, b)

\* C19: in every record Lat and Lon are both empty or both set; they are
\* empty when the row has no map link or its URL holds no
\* wgs84/<number>/<number>, and otherwise they are the two numbers, taken
\* whole, of the first place of the URL where that pattern occurs.
C19_LatLonCoExtracted ==
  (pc \in {"save", "done"} /\ parse_calls = 1) =>
    LET rows == FindAllTr(html_content)
    IN /\ Len(from) = Len(data_list)
       /\ \A j \in 1..Len(data_list) :
            LET row  == rows[from[j]]
                link == MapLink(row)
                lat  == data_list[j].Lat
                lon  == data_list[j].Lon
            IN /\ (lat = <<>>) <=> (lon = <<>>)
               /\ IF link.none \/ \A i \in 1..Len(link.v.href) : ~PatternFrom(link.v.href, i)
                  THEN lat = <<>> /\ lon = <<>>
                  ELSE LET h == link.v.href
                           i == FirstIndex({k \in 1..Len(h) : PatternFrom(h, k)})
                           p == i + Len(Wgs84)
                       IN \E a \in 1..Len(h) : \E b \in 1..Len(h) :
                            /\ PatternAt(h, i, a, b)
                            /\ ~PatternAt(h, i, a, b + 1)
                            /\ lat = SubSeq(h, p, p + a - 1)
                            /\ lon = SubSeq(h, p + a + 1, p + a + b)

\* a record whose coordinates come from the second wgs84/ of the URL, the
\* first one being followed by no number, and a record whose map link has
\* one number only
C19_Witness ==
  /\ pc = "save" /\ parse_calls = 1
  /\ FindAllTr(html_content) = <<RowTwoMaps, RowMapAndDiv>>
  /\ Len(data_list) = 2
  /\ data_list[1].Lat = <<"3">> /\ data_list[1].Lon = <<"4", ".", "5">>
  /\ data_list[2].Lat = <<>> /\ data_list[2].Lon = <<>>

====
